---- MODULE Spec2Model ----
(***************************************************************************)
(* Model of scripts/fetch.py (main, the month walker, the index merge) and *)
(* scripts/fetch_one.py (fetch_one, load_index, save_index).               *)
(*                                                                         *)
(* Strings are sequences of character codes, so that the string functions  *)
(* of the scripts (regular expressions, replace, split, comparison) are    *)
(* computed rather than assumed.                                           *)
(***************************************************************************)
EXTENDS Integers, Sequences, FiniteSets, TLC

(***************************************************************************)
(* Bounds of the model                                                     *)
(***************************************************************************)
\* page numbers above MaxPage are folded onto MaxPage (the code's counter is unbounded)
MaxPage == 2
\* last bucket walked; the script's END_YM is "202001", bounded here
END_YM == 202511
\* first bucket walked
START_YM == 202601

(***************************************************************************)
(* Strings                                                                 *)
(***************************************************************************)
\* "unknown"
UNKNOWN == <<117, 110, 107, 110, 111, 119, 110>>
\* "no-title"
NO_TITLE == <<110, 111, 45, 116, 105, 116, 108, 101>>
\* "untitled"
UNTITLED == <<117, 110, 116, 105, 116, 108, 101, 100>>
\* "posts"
POSTS == <<112, 111, 115, 116, 115>>
\* "images"
IMAGES == <<105, 109, 97, 103, 101, 115>>
\* "index.md"
INDEX_MD == <<105, 110, 100, 101, 120, 46, 109, 100>>
\* "/"
SLASH == <<47>>
\* ".jpg"
DOT_JPG == <<46, 106, 112, 103>>
\* "000000000000"
ZEROS12 == <<48, 48, 48, 48, 48, 48, 48, 48, 48, 48, 48, 48>>

IsDigit(c) == c >= 48 /\ c <= 57

Min(a, b) == IF a <= b THEN a ELSE b

\* str < str of Python: lexicographic on code points
StrLess(a, b) ==
    \/ \E k \in 1..Min(Len(a), Len(b)) :
          /\ a[k] < b[k]
          /\ \A j \in 1..(k - 1) : a[j] = b[j]
    \/ /\ Len(a) < Len(b)
       /\ \A j \in 1..Len(a) : a[j] = b[j]

\* s.replace(c, d) for single characters
ReplaceChar(s, c, d) == [k \in 1..Len(s) |-> IF s[k] = c THEN d ELSE s[k]]

\* s.replace(c, "")
RemoveChar(s, c) == SelectSeq(s, LAMBDA ch : ch # c)

\* s.split(c)[0]
SplitFirst(s, c) ==
    LET hits == {k \in 1..Len(s) : s[k] = c}
    IN  IF hits = {} THEN s
        ELSE SubSeq(s, 1, (CHOOSE k \in hits : \A j \in hits : k <= j) - 1)

\* s.lower()
Lower(s) == [k \in 1..Len(s) |-> IF s[k] >= 65 /\ s[k] <= 90 THEN s[k] + 32 ELSE s[k]]

\* f"{n:02d}"
TwoDigits(n) == IF n < 100 THEN <<48 + (n \div 10), 48 + (n % 10)>>
                ELSE <<48 + (n \div 100), 48 + ((n \div 10) % 10), 48 + (n % 10)>>

\* the match of (\d+) at the start of s: its longest prefix of digits
LeadingDigits(s) ==
    LET ok == {k \in 0..Len(s) : \A j \in 1..k : IsDigit(s[j])}
    IN  SubSeq(s, 1, CHOOSE k \in ok : \A j \in ok : j <= k)

\* a list left as it is
_dedup_keep_nothing(seq) == seq

_dedup_keep(seq) ==
    LET keep == {k \in 1..Len(seq) : \A j \in 1..(k - 1) : seq[j] # seq[k]}
        F[k \in 0..Len(seq)] ==
            IF k = 0 THEN <<>>
            ELSE IF k \in keep THEN Append(F[k - 1], seq[k]) ELSE F[k - 1]
    IN  F[Len(seq)]

\* re.sub(r"[\\/:*?\"<>|]", "_", s), whitespace collapsed and stripped, s[:140]
safe_folder(s) ==
    LET bad == {92, 47, 58, 42, 63, 34, 60, 62, 124}
        s1 == [k \in 1..Len(s) |-> IF s[k] \in bad THEN 95 ELSE s[k]]
        ws(c) == c \in {32, 9, 10, 13}
        s2 == [k \in 1..Len(s1) |-> IF ws(s1[k]) THEN 32 ELSE s1[k]]
        keep == {k \in 1..Len(s2) :
                    \/ s2[k] # 32
                    \/ /\ k > 1 /\ s2[k - 1] # 32
                       /\ \E j \in (k + 1)..Len(s2) : s2[j] # 32}
        F[k \in 0..Len(s2)] ==
            IF k = 0 THEN <<>>
            ELSE IF k \in keep THEN Append(F[k - 1], s2[k]) ELSE F[k - 1]
        s3 == F[Len(s2)]
    IN  IF s3 = <<>> THEN UNTITLED ELSE SubSeq(s3, 1, Min(Len(s3), 140))

(***************************************************************************)
(* The remote site                                                         *)
(***************************************************************************)
\* an href or URL: whether it contains "diary/detail/", the text after it up
\* to the query, and the query ("?..." or empty)
Href(d, seg, q) == [detail |-> d, seg |-> seg, query |-> q]

\* .../diary/detail/1001, the same with a query, .../diary/detail/1002,
\* .../diary/detail/abc, .../diary/detail/1001a, .../diary/detail/xyz and a
\* link that is no post
U1001 == Href(TRUE, <<49, 48, 48, 49>>, <<>>)
U1001q == Href(TRUE, <<49, 48, 48, 49>>, <<63, 120>>)
U1002 == Href(TRUE, <<49, 48, 48, 50>>, <<>>)
Uabc == Href(TRUE, <<97, 98, 99>>, <<>>)
U1001a == Href(TRUE, <<49, 48, 48, 49, 97>>, <<>>)
Uxyz == Href(TRUE, <<120, 121, 122>>, <<>>)
Uother == Href(FALSE, <<116, 111, 112>>, <<>>)

\* the href lists a listing page can carry, in document order
ListingBodies ==
    { <<>>,
      <<Uother>>,
      <<U1001, Uother, U1002>>,
      <<U1001q, U1001>>,
      <<Uabc, U1001a>> }

\* "2024.05.01 10:00" and "2024.05.02 09:00"
DT_MAY1 == <<50, 48, 50, 52, 46, 48, 53, 46, 48, 49, 32, 49, 48, 58, 48, 48>>
DT_MAY2 == <<50, 48, 50, 52, 46, 48, 53, 46, 48, 50, 32, 48, 57, 58, 48, 48>>

\* an <img src>: path stem, suffix and query
Img(stem, ext, q) == [stem |-> stem, ext |-> ext, query |-> q]

\* the detail page served for a URL: the heading text (empty: none), the
\* first timestamp in its text (empty: none), its img srcs and its hrefs
Page(t, st, im, ln) == [title |-> t, stamp |-> st, imgs |-> im, links |-> ln]

Sites == {"A", "B"}

DetailPage(s, u) ==
    IF s = "A" THEN
        CASE u.seg = U1001.seg ->
                Page(<<84>>, DT_MAY1,
                     << Img(<<97>>, <<46, 74, 80, 71>>, <<63, 49>>),
                        Img(<<98>>, <<46, 116, 120, 116>>, <<>>),
                        Img(<<97>>, <<46, 74, 80, 71>>, <<63, 50>>) >>,
                     <<Uother, U1002, Uother>>)
          [] u.seg = U1002.seg -> Page(<<>>, DT_MAY2, <<>>, <<>>)
          [] OTHER -> Page(<<>>, <<>>, <<>>, <<Uother>>)
    ELSE IF s = "C" THEN
        \* 1001 shows a.JPG?1, b.txt, c.png and a.JPG?2; 1002 shows d.gif
        CASE u.seg = U1001.seg ->
                Page(<<84>>, DT_MAY1,
                     << Img(<<97>>, <<46, 74, 80, 71>>, <<63, 49>>),
                        Img(<<98>>, <<46, 116, 120, 116>>, <<>>),
                        Img(<<99>>, <<46, 112, 110, 103>>, <<>>),
                        Img(<<97>>, <<46, 74, 80, 71>>, <<63, 50>>) >>,
                     <<>>)
          [] u.seg = U1002.seg ->
                Page(<<85>>, DT_MAY2,
                     << Img(<<100>>, <<46, 103, 105, 102>>, <<>>) >>, <<>>)
          [] OTHER -> Page(<<>>, <<>>, <<>>, <<>>)
    ELSE
        CASE u.seg = U1001.seg -> Page(<<84>>, DT_MAY2, <<>>, <<>>)
          [] u.seg = U1002.seg -> Page(<<85>>, DT_MAY2, <<>>, <<>>)
          [] OTHER -> Page(<<86>>, DT_MAY1, <<>>, <<>>)

\* what a fetch can do: answer 200, answer another status, or raise
\* (timeout, connection error)
Outcomes == {"ok", "http_error", "raise"}

(***************************************************************************)
(* Pure functions of the scripts                                           *)
(***************************************************************************)
\* ".jpg", ".jpeg", ".png", ".webp", ".gif"
IMG_EXTS ==
    { <<46, 106, 112, 103>>, <<46, 106, 112, 101, 103>>, <<46, 112, 110, 103>>,
      <<46, 119, 101, 98, 112>>, <<46, 103, 105, 102>> }

\* re.sub(r"\?.*$", "", u)
normalize_detail_url(u) == [u EXCEPT !.query = <<>>]

extract_detail_links(body) ==
    LET hits == SelectSeq(body, LAMBDA h : h.detail)
    IN  _dedup_keep([k \in 1..Len(hits) |-> normalize_detail_url(hits[k])])

\* re.search(r"/diary/detail/(\d+)", url), else "unknown"
post_id(url) ==
    IF url.detail /\ LeadingDigits(url.seg) # <<>>
    THEN LeadingDigits(url.seg)
    ELSE UNKNOWN

\* int(ym[:4]), int(ym[4:]) and f"{y:04d}{m:02d}" on a YYYYMM value
ym_year(ym) == ym \div 100
ym_month(ym) == ym % 100
ym_text(yy, mm) == yy * 100 + mm

\* a generator that goes from January to December of the same year
iter_months_desc_same_year(yy, mm, end_ym) ==
    IF <<yy, mm>> = <<ym_year(end_ym), ym_month(end_ym)>>
    THEN <<yy, mm, TRUE>>
    ELSE IF mm - 1 = 0 THEN <<yy, 12, FALSE>> ELSE <<yy, mm - 1, FALSE>>

\* one turn of the generator's loop after a yield: <<y, m, finished>>
iter_months_desc(yy, mm, end_ym) ==
    IF <<yy, mm>> = <<ym_year(end_ym), ym_month(end_ym)>>
    THEN <<yy, mm, TRUE>>
    ELSE IF mm - 1 = 0 THEN <<yy - 1, 12, FALSE>> ELSE <<yy, mm - 1, FALSE>>

\* the persisted index: absent, or a JSON list of records, or a file that
\* is no JSON ("malformed"), or JSON that is no list ("object": a dict)
NoFile == [exists |-> FALSE, json |-> "list", data |-> <<>>]
ListFile(d) == [exists |-> TRUE, json |-> "list", data |-> d]
MalformedFile == [exists |-> TRUE, json |-> "malformed", data |-> <<>>]
ObjectFile == [exists |-> TRUE, json |-> "object", data |-> <<>>]

load_existing_ids(f) ==
    IF ~f.exists THEN {}
    ELSE IF f.json # "list" THEN {}
    ELSE {f.data[k].id : k \in {j \in 1..Len(f.data) : f.data[j].id # <<>>}}

\* PostIndex of fetch.py, as asdict() writes it
PostIndex(id, title, dt, url, local_dir, images, links) ==
    [id |-> id, title |-> title, datetime |-> dt, url |-> url,
     local_dir |-> local_dir, images |-> images, links_in_post |-> links]

\* PostIndex of fetch_one.py, as asdict() writes it
PostIndexOne(id, title, dt, url, local_dir, path, images, links) ==
    [id |-> id, title |-> title, datetime |-> dt, url |-> url,
     local_dir |-> local_dir, path |-> path, images |-> images,
     links_in_post |-> links]

\* main() starting from an empty index whatever posts.json holds
load_old_index_dropped(f) == <<>>

\* main() taking over the records of the existing posts.json
load_old_index(f) ==
    IF ~f.exists THEN <<>>
    ELSE IF f.json # "list" THEN <<>>
    ELSE LET old == SelectSeq(f.data, LAMBDA x : x.id # <<>>)
         IN  [k \in 1..Len(old) |->
                 PostIndex(old[k].id, old[k].title, old[k].datetime, old[k].url,
                           old[k].local_dir, old[k].images, old[k].links_in_post)]

\* load_index() of fetch_one.py: <<data, ids>>; json.load() of a malformed
\* file raises, see load_index_raises
load_index(f) ==
    IF ~f.exists THEN <<(<<>>), {}>>
    ELSE <<f.data, {f.data[k].id : k \in 1..Len(f.data)}>>

\* json.load() raises in load_index(): nothing catches it
load_index_raises(f) == f.exists /\ f.json = "malformed"

\* existing_data.append() raises in fetch_one(): the loaded JSON is a dict
append_raises(f) == f.exists /\ f.json = "object"

\* title, datetime and links of parse_post (the same in both scripts)
parse_title(pg) == IF pg.title = <<>> THEN NO_TITLE ELSE pg.title
parse_datetime(pg) == IF pg.stamp = <<>> THEN UNKNOWN ELSE pg.stamp
parse_links(pg) == _dedup_keep(pg.links)

\* image URLs of parse_post: srcs with an image suffix, query stripped,
\* first occurrence kept
parse_images(pg) ==
    LET hits == SelectSeq(pg.imgs, LAMBDA im : Lower(im.ext) \in IMG_EXTS)
    IN  _dedup_keep([k \in 1..Len(hits) |-> [hits[k] EXCEPT !.query = <<>>]])

\* image URLs of parse_post of fetch_one.py: the query is stripped first,
\* then the suffix is tested; list(dict.fromkeys(...)) keeps first occurrences
parse_images_one(pg) ==
    LET full == [k \in 1..Len(pg.imgs) |-> [pg.imgs[k] EXCEPT !.query = <<>>]]
    IN  _dedup_keep(SelectSeq(full, LAMBDA im : Lower(im.ext) \in IMG_EXTS))

\* str(post_dir.relative_to(DOCS_DIR)): posts/<year>/<folder_name>
local_dir_of(dt, pid) ==
    LET year == IF dt # UNKNOWN THEN SplitFirst(dt, 46) ELSE UNKNOWN
        dt_folder == RemoveChar(ReplaceChar(ReplaceChar(dt, 46, 45), 32, 95), 58)
        folder_name == IF dt # UNKNOWN
                       THEN safe_folder(dt_folder \o <<95>> \o pid)
                       ELSE safe_folder(pid)
    IN  POSTS \o SLASH \o year \o SLASH \o folder_name

\* rel of the image loop: f"images/{n:02d}{ext}", ext the suffix or ".jpg"
rel_of(img_url, n) ==
    IMAGES \o SLASH \o TwoDigits(n)
        \o (IF img_url.ext = <<>> THEN DOT_JPG ELSE img_url.ext)

\* the image loop: dl[n] tells whether download n succeeded; the result is
\* saved_imgs after the downloads in DOMAIN dl
saved_images(dir, image_urls, dl) ==
    LET F[n \in 0..Len(dl)] ==
            IF n = 0 THEN <<>>
            ELSE IF dl[n]
                 THEN Append(F[n - 1], dir \o SLASH \o rel_of(image_urls[n], n))
                 ELSE F[n - 1]
    IN  F[Len(dl)]

\* a mapping that holds the failed downloads too
mapping_of_all(image_urls, dl) ==
    {[url |-> image_urls[n], rel |-> rel_of(image_urls[n], n)] : n \in DOMAIN dl}

\* the image loop: mapping_for_html after the downloads in DOMAIN dl
mapping_of(image_urls, dl) ==
    {[url |-> image_urls[n], rel |-> rel_of(image_urls[n], n)] :
        n \in {j \in DOMAIN dl : dl[j]}}

\* a src that is the relative path rel
LocalSrc(rel) == Img(rel, <<>>, <<>>)

\* the img srcs of the page after rewrite_html_images_to_local(); the
\* article container of extract_article_only() holds every img of the page
rewrite_html_images_to_local(imgs, mapping) ==
    [j \in 1..Len(imgs) |->
        LET full == [imgs[j] EXCEPT !.query = <<>>]
            hit == {e \in mapping : e.url = full}
        IN  IF hit # {} THEN LocalSrc((CHOOSE e \in hit : TRUE).rel)
            ELSE imgs[j]]

\* a file below docs/posts: its post directory, which artifact it is
\* ("raw": page_raw.html, "image", "page": page.html, "md": index.md), its
\* path (images) and its img srcs (page.html)
File(dir, kind, path, content) ==
    [dir |-> dir, kind |-> kind, path |-> path, content |-> content]

\* write_text() / write_bytes(): the file replaces what the path held
Put(d, f) ==
    {g \in d : ~(g.dir = f.dir /\ g.kind = f.kind /\ g.path = f.path)} \cup {f}

RawFile(dir) == File(dir, "raw", <<>>, <<>>)
ImageFile(dir, img_url, n) == File(dir, "image", dir \o SLASH \o rel_of(img_url, n), <<>>)
PageFile(dir, imgs, mapping) ==
    File(dir, "page", <<>>, rewrite_html_images_to_local(imgs, mapping))
MdFile(dir) == File(dir, "md", <<>>, <<>>)

\* lines 327-370 (fetch_one.py 164-205) as one step: every artifact of a post
write_post(d, dir, imgs, image_urls, dl) ==
    LET F[n \in 0..Len(dl)] ==
            IF n = 0 THEN Put(d, RawFile(dir))
            ELSE IF dl[n] THEN Put(F[n - 1], ImageFile(dir, image_urls[n], n))
                 ELSE F[n - 1]
    IN  Put(Put(F[Len(dl)], PageFile(dir, imgs, mapping_of(image_urls, dl))),
            MdFile(dir))

\* sorted(items, key=..., reverse=True): descending and stable; keys[n] is
\* the key of items[n], keys compare element by element
Insert(s, x) ==
    LET below == {j \in 1..Len(s) : StrLess(s[j].key, x.key)}
        pos == IF below = {} THEN Len(s) + 1
               ELSE CHOOSE j \in below : \A i \in below : j <= i
    IN  SubSeq(s, 1, pos - 1) \o <<x>> \o SubSeq(s, pos, Len(s))

SortedReverse(items, keys) ==
    LET F[n \in 0..Len(items)] ==
            IF n = 0 THEN <<>>
            ELSE Insert(F[n - 1], [key |-> keys[n], item |-> items[n]])
        sorted == F[Len(items)]
    IN  [n \in 1..Len(sorted) |-> sorted[n].item]

\* sort_key of main(): the tuple (x.datetime == "unknown", x.datetime), as
\* the flag (False 0, True 1) followed by the characters of the datetime
sort_key(x) == <<IF x.datetime = UNKNOWN THEN 1 ELSE 0>> \o x.datetime

\* sort_key of save_index(): the datetime without ". :", "unknown" as zeros
save_sort_key(item) ==
    LET dt2 == RemoveChar(RemoveChar(RemoveChar(item.datetime, 46), 32), 58)
    IN  IF dt2 # UNKNOWN THEN dt2 ELSE ZEROS12

(***************************************************************************)
(* State                                                                   *)
(***************************************************************************)
VARIABLES
    posts_json,     \* docs/index/posts.json
    files,          \* the post directories written under docs/posts
    site,           \* the remote site the scripts read
    pc,             \* "idle": no script runs; "walk", "load", "archive": main();
                    \* "one_fetch": fetch_one(); "raw", "img", "md", "append":
                    \* a post taken artifact by artifact
    existing_ids,   \* main(): existing_ids
    y, m,           \* iter_months_desc(): y, m of the bucket being walked
    page,           \* extract_post_urls_all_months(): page
    urls,           \* extract_post_urls_all_months(): urls, then main(): post_urls
    index,          \* main(): index
    k,              \* main(): position of the loop over post_urls
    run,            \* the script that ran last: "none", "main", "one"
    exit,           \* how it ended: "running", "done", "skip", "crash", "killed"
    resp,           \* the last listing response and what the walker took from
                    \* it; the outcome of the last detail fetch taken on its own
    list_fetches,   \* listing fetches of this walk (folded at MaxFetches)
    all_empty,      \* every listing response of this walk carried no link
    fetched,        \* detail URLs fetched by this run
    written,        \* post directories written by this run
    ids_at_start,   \* ids in posts.json when this run started
    all_ok,         \* no fetch of this run failed
    listing,        \* the listing pages of the site; "any": they may change
    runs,           \* runs of main() started against a fixed listing
    first_index,    \* posts.json when the latest of these runs started
    disk,           \* the files below docs/posts
    gap,            \* since the last fetch of this process: "none": it made
                    \* no fetch, "fetched": no sleep yet, "slept"
    post,           \* the post being archived step by step
    kills,          \* interruptions so far
    calc            \* a pure function under test: its input and its result

vars == <<posts_json, files, site, pc, existing_ids, y, m, page, urls, index, k,
          run, exit, resp, list_fetches, all_empty, fetched, written,
          ids_at_start, all_ok, listing, runs, first_index, disk, gap, post,
          kills, calc>>

\* the variables of the specifications that take a post step by step or
\* apply a pure function
aside == <<post, kills, calc>>

\* listing fetches are counted up to this number
MaxFetches == 5

NoResp == [outcome |-> "none", links |-> 0, added |-> 0]

\* no post is in hand
NoPost == [url |-> Uother, dl |-> <<>>]

\* no pure function is under test
NoCalc == [fn |-> "none"]

\* no script runs and docs/posts is empty
Idle ==
    /\ files = {}
    /\ disk = {}
    /\ gap = "none"
    /\ post = NoPost
    /\ kills = 0
    /\ pc = "idle"
    /\ existing_ids = {}
    /\ y = 0 /\ m = 0 /\ page = 0
    /\ urls = <<>>
    /\ index = <<>>
    /\ k = 0
    /\ run = "none"
    /\ exit = "done"
    /\ resp = NoResp
    /\ list_fetches = 0
    /\ all_empty = TRUE
    /\ fetched = {}
    /\ written = {}
    /\ ids_at_start = {}
    /\ all_ok = TRUE

\* nothing was archived yet and no script runs
Blank ==
    /\ posts_json = NoFile
    /\ calc = NoCalc
    /\ Idle

Fresh ==
    /\ Blank
    /\ site \in Sites

Init ==
    /\ Fresh
    /\ listing = "any"
    /\ runs = 0
    /\ first_index = NoFile

\* the process has ended: its variables are gone
ProcessGone ==
    /\ pc' = "idle"
    /\ existing_ids' = {}
    /\ y' = 0 /\ m' = 0 /\ page' = 0
    /\ urls' = <<>>
    /\ index' = <<>>
    /\ k' = 0
    /\ gap' = "none"
    /\ post' = NoPost

(***************************************************************************)
(* main() of fetch.py                                                      *)
(***************************************************************************)
\* lines 272-282 and 230-233: load_existing_ids(), then the walker starts
\* with the first bucket
StartMain ==
    /\ pc = "idle"
    /\ pc' = "walk"
    /\ existing_ids' = load_existing_ids(posts_json)
    /\ y' = ym_year(START_YM)
    /\ m' = ym_month(START_YM)
    /\ page' = 1
    /\ urls' = <<>>
    /\ index' = <<>>
    /\ k' = 0
    /\ run' = "main"
    /\ exit' = "running"
    /\ resp' = NoResp
    /\ list_fetches' = 0
    /\ all_empty' = TRUE
    /\ fetched' = {}
    /\ written' = {}
    /\ ids_at_start' = load_existing_ids(posts_json)
    /\ all_ok' = TRUE
    /\ gap' = "none"
    /\ UNCHANGED <<posts_json, files, site, listing, disk, aside>>

MainStart ==
    /\ StartMain
    /\ UNCHANGED <<runs, first_index>>

\* `break` of the page loop: the for loop takes the next bucket from the
\* generator, or the walker returns urls
NextBucket ==
    LET nx == iter_months_desc(y, m, END_YM)
    IN  IF nx[3]
        THEN /\ pc' = "load"
             /\ UNCHANGED <<y, m, page>>
        ELSE /\ pc' = "walk"
             /\ y' = nx[1]
             /\ m' = nx[2]
             /\ page' = 1

\* a page loop that no page ends
walk_continues_always(links, added) == TRUE

\* whether the page loop goes on after a page that answered 200 with these
\* links, `added` of them new (lines 251-265)
walk_continues(links, added) == links # <<>>

\* lines 235-265: one turn of the page loop
ListFetch(o, body) ==
    /\ pc = "walk"
    /\ list_fetches' = Min(list_fetches + 1, MaxFetches)
    /\ IF o = "raise"
       THEN \* get() raises; nothing catches it up to main()
            /\ ProcessGone
            /\ exit' = "crash"
            /\ resp' = [outcome |-> o, links |-> 0, added |-> 0]
            /\ all_ok' = FALSE
            /\ UNCHANGED <<all_empty, kills, calc>>
       ELSE LET links == extract_detail_links(body)
                merged == _dedup_keep(urls \o links)
                added == Len(merged) - Len(urls)
            IN  /\ all_empty' = (all_empty /\ links = <<>>)
                /\ all_ok' = (all_ok /\ o = "ok")
                /\ IF o # "ok"
                   THEN \* `break` at line 249: no sleep
                        /\ NextBucket
                        /\ resp' = [outcome |-> o, links |-> Len(links), added |-> 0]
                        /\ gap' = "fetched"
                        /\ UNCHANGED urls
                   ELSE IF ~walk_continues(links, added)
                   THEN \* `break` at line 255: no sleep
                        /\ NextBucket
                        /\ resp' = [outcome |-> o, links |-> Len(links), added |-> 0]
                        /\ gap' = "fetched"
                        /\ UNCHANGED urls
                   ELSE \* line 265: time.sleep(SLEEP_SEC)
                        /\ urls' = merged
                        /\ page' = Min(page + 1, MaxPage)
                        /\ resp' = [outcome |-> o, links |-> Len(links), added |-> added]
                        /\ gap' = "slept"
                        /\ UNCHANGED <<pc, y, m>>
                /\ UNCHANGED <<existing_ids, index, k, exit, aside>>
    /\ UNCHANGED <<posts_json, files, site, run, fetched, written, ids_at_start,
                   listing, runs, first_index, disk>>

\* lines 285-307: the records of the existing posts.json are taken over
LoadOld ==
    /\ pc = "load"
    /\ index' = load_old_index(posts_json)
    /\ k' = 1
    /\ pc' = "archive"
    /\ resp' = NoResp
    /\ UNCHANGED <<posts_json, files, site, existing_ids, y, m, page, urls, run,
                   exit, list_fetches, all_empty, fetched, written,
                   ids_at_start, all_ok, listing, runs, first_index, disk, gap,
                   aside>>

\* main() archiving every parsed post
is_new_always(pid, ids) == TRUE

\* whether main() archives a parsed post (lines 317-319)
is_new(pid, ids) == pid \notin ids

\* a failed detail fetch marking the id as seen
ids_after_failure_marked(ids, pid) == ids \cup {pid}

\* existing_ids after parse_post() raised (lines 313-315: only a warning)
ids_after_failure(ids, pid) == ids

\* existing_ids left as it was after a post was archived
ids_after_forgotten(ids, pid) == ids

\* existing_ids after a post was archived (line 383)
ids_after(ids, pid) == ids \cup {pid}

\* lines 310-385: one turn of the loop over post_urls; o is the outcome of
\* the detail fetch, dl the outcomes of the image downloads.  The site
\* answers a detail URL without redirecting, so final_url is url.
Archive(o, dl) ==
    /\ pc = "archive"
    /\ k <= Len(urls)
    /\ LET url == urls[k]
           pg == DetailPage(site, url)
           pid == post_id(url)
           dt == parse_datetime(pg)
           image_urls == parse_images(pg)
           dir == local_dir_of(dt, pid)
       IN  /\ fetched' = fetched \cup {url}
           /\ k' = k + 1
           /\ IF o # "ok"
              THEN \* parse_post raised: [WARN], continue
                   /\ all_ok' = FALSE
                   /\ existing_ids' = ids_after_failure(existing_ids, pid)
                   /\ gap' = "fetched"
                   /\ UNCHANGED <<index, files, written, disk>>
              ELSE IF ~is_new(pid, existing_ids)
              THEN \* [SKIP], continue
                   /\ gap' = "fetched"
                   /\ UNCHANGED <<index, existing_ids, files, written, all_ok, disk>>
              ELSE /\ DOMAIN dl = 1..Len(image_urls)
                   /\ files' = files \cup {dir}
                   /\ written' = written \cup {dir}
                   /\ disk' = write_post(disk, dir, pg.imgs, image_urls, dl)
                   /\ gap' = "slept"
                   /\ index' = Append(index,
                         PostIndex(pid, parse_title(pg), dt,
                                   normalize_detail_url(url), dir,
                                   saved_images(dir, image_urls, dl),
                                   parse_links(pg)))
                   /\ existing_ids' = ids_after(existing_ids, pid)
                   /\ all_ok' = (all_ok /\ \A n \in DOMAIN dl : dl[n])
    /\ UNCHANGED <<posts_json, site, pc, y, m, page, urls, run, exit, resp,
                   list_fetches, all_empty, ids_at_start, listing, runs,
                   first_index, aside>>

\* lines 387-398: sort and write posts.json
WriteIndex ==
    /\ pc = "archive"
    /\ k > Len(urls)
    /\ posts_json' = ListFile(SortedReverse(index,
                        [n \in 1..Len(index) |-> sort_key(index[n])]))
    /\ ProcessGone
    /\ exit' = "done"
    /\ UNCHANGED <<files, site, run, resp, list_fetches, all_empty, fetched,
                   written, ids_at_start, all_ok, listing, runs, first_index,
                   disk, kills, calc>>

(***************************************************************************)
(* fetch_one() of fetch_one.py                                             *)
(***************************************************************************)
\* the command line argument: a bare text, or a detail URL
Arg(bare, seg, q) == [bare |-> bare, seg |-> seg, query |-> q]

Args ==
    { Arg(TRUE, U1001.seg, <<>>), Arg(FALSE, U1002.seg, <<63, 120>>),
      Arg(FALSE, Uabc.seg, <<>>), Arg(FALSE, U1001a.seg, <<>>) }

\* lines 142-147: a bare number becomes a detail URL; the query is stripped
arg_url(a) ==
    LET all_digits == a.seg # <<>> /\ LeadingDigits(a.seg) = a.seg
    IN  normalize_detail_url(
            IF a.bare THEN Href(all_digits, a.seg, <<>>)
            ELSE Href(TRUE, a.seg, a.query))

\* save_index(): sort descending, write
save_index(data) ==
    ListFile(SortedReverse(data, [n \in 1..Len(data) |-> save_sort_key(data[n])]))

\* fetch_one() never returning at once
one_skips_never(pid, ids) == FALSE

\* whether fetch_one() returns at once (lines 153-155)
one_skips(pid, ids) == pid \in ids

\* lines 140-223: the whole script; o is the outcome of the detail fetch,
\* dl the outcomes of the image downloads
FetchOne(a, o, dl) ==
    /\ pc = "idle"
    /\ LET url == arg_url(a)
           loaded == load_index(posts_json)
           pid == post_id(url)
           pg == DetailPage(site, url)
           dt == parse_datetime(pg)
           image_urls == parse_images(pg)
           dir == local_dir_of(dt, pid)
       IN  /\ IF load_index_raises(posts_json)
              THEN \* line 149: the script dies before it did anything
                   /\ exit' = "crash"
                   /\ ids_at_start' = {}
                   /\ fetched' = {}
                   /\ written' = {}
                   /\ all_ok' = TRUE
                   /\ UNCHANGED <<posts_json, files, disk>>
              ELSE IF one_skips(pid, loaded[2])
              THEN /\ exit' = "skip"
                   /\ ids_at_start' = loaded[2]
                   /\ fetched' = {}
                   /\ written' = {}
                   /\ all_ok' = TRUE
                   /\ UNCHANGED <<posts_json, files, disk>>
              ELSE IF o # "ok"
              THEN \* get_soup() raises; the script dies
                   /\ exit' = "crash"
                   /\ ids_at_start' = loaded[2]
                   /\ fetched' = {url}
                   /\ written' = {}
                   /\ all_ok' = FALSE
                   /\ UNCHANGED <<posts_json, files, disk>>
              ELSE IF append_raises(posts_json)
              THEN \* line 207: the script dies after it wrote the post
                   /\ DOMAIN dl = 1..Len(image_urls)
                   /\ exit' = "crash"
                   /\ ids_at_start' = loaded[2]
                   /\ fetched' = {url}
                   /\ written' = {dir}
                   /\ files' = files \cup {dir}
                   /\ disk' = write_post(disk, dir, pg.imgs, image_urls, dl)
                   /\ all_ok' = \A n \in DOMAIN dl : dl[n]
                   /\ UNCHANGED posts_json
              ELSE /\ DOMAIN dl = 1..Len(image_urls)
                   /\ exit' = "done"
                   /\ ids_at_start' = loaded[2]
                   /\ fetched' = {url}
                   /\ written' = {dir}
                   /\ files' = files \cup {dir}
                   /\ disk' = write_post(disk, dir, pg.imgs, image_urls, dl)
                   /\ all_ok' = \A n \in DOMAIN dl : dl[n]
                   /\ posts_json' = save_index(Append(loaded[1],
                         PostIndexOne(pid, parse_title(pg), dt, url, dir,
                                      dir \o SLASH \o INDEX_MD,
                                      saved_images(dir, image_urls, dl),
                                      parse_links(pg))))
    /\ run' = "one"
    /\ resp' = NoResp
    /\ list_fetches' = 0
    /\ all_empty' = TRUE
    /\ UNCHANGED <<site, pc, existing_ids, y, m, page, urls, index, k,
                   listing, runs, first_index, gap, aside>>

(***************************************************************************)
(* Specification                                                           *)
(***************************************************************************)
\* the outcomes of up to MaxImages image downloads
MaxImages == 1
Downloads == UNION {[1..n -> BOOLEAN] : n \in 0..MaxImages}

Next ==
    \/ MainStart
    \/ \E o \in Outcomes, body \in ListingBodies : ListFetch(o, body)
    \/ LoadOld
    \/ \E o \in Outcomes, dl \in Downloads : Archive(o, dl)
    \/ WriteIndex
    \/ \E a \in Args, o \in Outcomes, dl \in Downloads : FetchOne(a, o, dl)

Spec == Init /\ [][Next]_vars

\* the walker alone, extract_post_urls_all_months(): main() up to the return
\* of the walker; a running walker keeps running
WalkStep == \E o \in Outcomes, body \in ListingBodies : ListFetch(o, body)

WalkNext ==
    \/ MainStart
    \/ WalkStep

WalkSpec == Init /\ [][WalkNext]_vars /\ WF_vars(WalkStep)

(***************************************************************************)
(* main() run twice against an unchanged site, every fetch succeeding      *)
(***************************************************************************)
Listings == {"L1", "L2", "L3", "L4"}

\* the hrefs of page p of bucket ym under a fixed listing
ListingPage(l, ym, p) ==
    LET b1 == <<U1001, Uother, U1002>>
        b2 == <<Uabc, U1001a>>
        b3 == <<U1001q, U1001>>
        b4 == <<Uabc, Uxyz>>
        first == CASE l = "L1" -> (IF ym = START_YM THEN b1 ELSE <<>>)
                   [] l = "L2" -> (IF ym = START_YM THEN b2
                                   ELSE IF ym = END_YM THEN b3 ELSE <<>>)
                   [] l = "L4" -> (IF ym = START_YM THEN b4 ELSE <<>>)
                   [] OTHER -> (IF ym = START_YM THEN b3
                                ELSE IF ym = END_YM THEN b1 ELSE b2)
        second == IF l = "L1" THEN b3 ELSE <<Uother>>
    IN  IF p = 1 THEN first
        ELSE IF p = 2 /\ p < MaxPage THEN second
        ELSE <<>>

\* the runs compared
MaxRuns == 2

TwiceInit ==
    /\ Fresh
    /\ listing \in Listings
    /\ runs = 0
    /\ first_index = NoFile

\* posts may have been added one at a time before the first run
TwiceOne ==
    /\ runs = 0
    /\ \E a \in Args, dl \in Downloads : FetchOne(a, "ok", dl)

TwiceStart ==
    /\ runs < MaxRuns
    /\ StartMain
    /\ runs' = runs + 1
    /\ first_index' = posts_json

TwiceList == ListFetch("ok", ListingPage(listing, ym_text(y, m), page))

TwiceArchive == \E dl \in Downloads : (\A n \in DOMAIN dl : dl[n]) /\ Archive("ok", dl)

TwiceNext ==
    \/ TwiceOne
    \/ TwiceStart
    \/ TwiceList
    \/ LoadOld
    \/ TwiceArchive
    \/ WriteIndex

TwiceSpec == TwiceInit /\ [][TwiceNext]_vars

(***************************************************************************)
(* main() and fetch_one() taking a post artifact by artifact, and          *)
(* interrupted anywhere                                                    *)
(***************************************************************************)
\* what parse_post() and the lines after it derive from the post in hand
post_page == DetailPage(site, post.url)
post_pid == post_id(post.url)
post_dt == parse_datetime(post_page)
post_images == parse_images(post_page)
post_dir == local_dir_of(post_dt, post_pid)

\* fetch.py 310-319: parse_post(url) and the test against existing_ids
DetailFetch(o) ==
    /\ pc = "archive"
    /\ k <= Len(urls)
    /\ fetched' = fetched \cup {urls[k]}
    /\ resp' = [outcome |-> o, links |-> 0, added |-> 0]
    /\ gap' = "fetched"
    /\ all_ok' = (all_ok /\ o = "ok")
    /\ IF o # "ok"
       THEN /\ existing_ids' = ids_after_failure(existing_ids, post_id(urls[k]))
            /\ k' = k + 1
            /\ UNCHANGED <<pc, post>>
       ELSE IF ~is_new(post_id(urls[k]), existing_ids)
       THEN /\ k' = k + 1
            /\ UNCHANGED <<pc, post, existing_ids>>
       ELSE /\ pc' = "raw"
            /\ post' = [url |-> urls[k], dl |-> <<>>]
            /\ UNCHANGED <<k, existing_ids>>
    /\ UNCHANGED <<posts_json, files, site, y, m, page, urls, index, run, exit,
                   list_fetches, all_empty, written, ids_at_start, listing,
                   runs, first_index, disk, kills, calc>>

\* fetch_one.py 142-155: the argument, load_index(), the test against the ids
OneStart(a) ==
    /\ pc = "idle"
    /\ run' = "one"
    /\ resp' = NoResp
    /\ list_fetches' = 0
    /\ all_empty' = TRUE
    /\ fetched' = {}
    /\ written' = {}
    /\ all_ok' = TRUE
    /\ LET url == arg_url(a)
           loaded == load_index(posts_json)
       IN  IF load_index_raises(posts_json)
           THEN /\ exit' = "crash"
                /\ ids_at_start' = {}
                /\ UNCHANGED <<pc, index, existing_ids, post>>
           ELSE /\ ids_at_start' = loaded[2]
                /\ IF one_skips(post_id(url), loaded[2])
                   THEN /\ exit' = "skip"
                        /\ UNCHANGED <<pc, index, existing_ids, post>>
                   ELSE /\ exit' = "running"
                        /\ pc' = "one_fetch"
                        /\ index' = loaded[1]
                        /\ existing_ids' = loaded[2]
                        /\ post' = [url |-> url, dl |-> <<>>]
    /\ UNCHANGED <<posts_json, files, site, y, m, page, urls, k, listing, runs,
                   first_index, disk, gap, kills, calc>>

\* fetch_one.py 158: parse_post(url); get_soup() raises on any failure
OneFetch(o) ==
    /\ pc = "one_fetch"
    /\ fetched' = {post.url}
    /\ resp' = [outcome |-> o, links |-> 0, added |-> 0]
    /\ all_ok' = (o = "ok")
    /\ IF o # "ok"
       THEN /\ ProcessGone
            /\ exit' = "crash"
       ELSE /\ pc' = "raw"
            /\ gap' = "fetched"
            /\ UNCHANGED <<existing_ids, y, m, page, urls, index, k, post, exit>>
    /\ UNCHANGED <<posts_json, files, site, run, list_fetches, all_empty,
                   written, ids_at_start, listing, runs, first_index, disk,
                   kills, calc>>

\* page_raw.html written and the record persisted at once, before the
\* other artifacts
WriteRaw_indexing ==
    /\ pc = "raw"
    /\ files' = files \cup {post_dir}
    /\ written' = written \cup {post_dir}
    /\ disk' = Put(disk, RawFile(post_dir))
    /\ pc' = "img"
    /\ posts_json' = save_index(Append(load_index(posts_json)[1],
          PostIndexOne(post_pid, parse_title(post_page), post_dt, post.url,
                       post_dir, post_dir \o SLASH \o INDEX_MD, <<>>,
                       parse_links(post_page))))
    /\ UNCHANGED <<site, existing_ids, y, m, page, urls, index, k,
                   run, exit, resp, list_fetches, all_empty, fetched,
                   ids_at_start, all_ok, listing, runs, first_index, gap, aside>>

\* fetch.py 327-331, fetch_one.py 164-167: the directory and page_raw.html
WriteRaw ==
    /\ pc = "raw"
    /\ files' = files \cup {post_dir}
    /\ written' = written \cup {post_dir}
    /\ disk' = Put(disk, RawFile(post_dir))
    /\ pc' = "img"
    /\ UNCHANGED <<posts_json, site, existing_ids, y, m, page, urls, index, k,
                   run, exit, resp, list_fetches, all_empty, fetched,
                   ids_at_start, all_ok, listing, runs, first_index, gap, aside>>

\* fetch.py 337-347, fetch_one.py 172-182: one turn of the image loop
DownloadImage(ok) ==
    /\ pc = "img"
    /\ Len(post.dl) < Len(post_images)
    /\ LET n == Len(post.dl) + 1
       IN  disk' = IF ok THEN Put(disk, ImageFile(post_dir, post_images[n], n))
                   ELSE disk
    /\ post' = [post EXCEPT !.dl = Append(post.dl, ok)]
    /\ all_ok' = (all_ok /\ ok)
    /\ gap' = "slept"
    /\ UNCHANGED <<posts_json, files, site, pc, existing_ids, y, m, page, urls,
                   index, k, run, exit, resp, list_fetches, all_empty, fetched,
                   written, ids_at_start, listing, runs, first_index, kills,
                   calc>>

\* fetch.py 350-352, fetch_one.py 184-185: page.html
WritePage ==
    /\ pc = "img"
    /\ Len(post.dl) = Len(post_images)
    /\ disk' = Put(disk, PageFile(post_dir, post_page.imgs,
                                  mapping_of(post_images, post.dl)))
    /\ pc' = "md"
    /\ UNCHANGED <<posts_json, files, site, existing_ids, y, m, page, urls,
                   index, k, run, exit, resp, list_fetches, all_empty, fetched,
                   written, ids_at_start, all_ok, listing, runs, first_index,
                   gap, aside>>

\* fetch.py 355-370, fetch_one.py 190-205: index.md
WriteMd ==
    /\ pc = "md"
    /\ disk' = Put(disk, MdFile(post_dir))
    /\ pc' = "append"
    /\ UNCHANGED <<posts_json, files, site, existing_ids, y, m, page, urls,
                   index, k, run, exit, resp, list_fetches, all_empty, fetched,
                   written, ids_at_start, all_ok, listing, runs, first_index,
                   gap, aside>>

\* fetch.py 372-385: the record joins index, the id joins existing_ids;
\* fetch_one.py 207-222: the record joins existing_data, save_index() writes
AppendIndex ==
    /\ pc = "append"
    /\ IF run = "main"
       THEN /\ index' = Append(index,
                  PostIndex(post_pid, parse_title(post_page), post_dt,
                            normalize_detail_url(post.url), post_dir,
                            saved_images(post_dir, post_images, post.dl),
                            parse_links(post_page)))
            /\ existing_ids' = ids_after(existing_ids, post_pid)
            /\ k' = k + 1
            /\ pc' = "archive"
            /\ post' = NoPost
            /\ gap' = "slept"
            /\ UNCHANGED <<posts_json, y, m, page, urls, exit>>
       ELSE /\ ProcessGone
            /\ IF append_raises(posts_json)
               THEN /\ exit' = "crash"
                    /\ UNCHANGED posts_json
               ELSE /\ exit' = "done"
                    /\ posts_json' = save_index(Append(index,
                          PostIndexOne(post_pid, parse_title(post_page), post_dt,
                                       post.url, post_dir,
                                       post_dir \o SLASH \o INDEX_MD,
                                       saved_images(post_dir, post_images, post.dl),
                                       parse_links(post_page))))
    /\ UNCHANGED <<files, site, run, resp, list_fetches, all_empty, fetched,
                   written, ids_at_start, all_ok, listing, runs, first_index,
                   disk, kills, calc>>

\* interruptions of a run
MaxKills == 1

\* the process is killed between two steps
Interrupt ==
    /\ pc # "idle"
    /\ kills < MaxKills
    /\ kills' = kills + 1
    /\ ProcessGone
    /\ exit' = "killed"
    /\ UNCHANGED <<posts_json, files, site, run, resp, list_fetches, all_empty,
                   fetched, written, ids_at_start, all_ok, listing, runs,
                   first_index, disk, calc>>

\* the process is killed inside the write_text() of posts.json (fetch.py
\* 393-396, fetch_one.py 94): the file is left cut short
InterruptWrite ==
    /\ \/ pc = "archive" /\ k > Len(urls)
       \/ pc = "append" /\ run = "one" /\ ~append_raises(posts_json)
    /\ kills < MaxKills
    /\ kills' = kills + 1
    /\ posts_json' = MalformedFile
    /\ ProcessGone
    /\ exit' = "killed"
    /\ UNCHANGED <<files, site, run, resp, list_fetches, all_empty, fetched,
                   written, ids_at_start, all_ok, listing, runs, first_index,
                   disk, calc>>

StepInit ==
    /\ Blank
    /\ site = "C"
    /\ listing = "L1"
    /\ runs = 0
    /\ first_index = NoFile

\* the arguments fetch_one.py is started with here
StepArgs == {Arg(TRUE, U1001.seg, <<>>), Arg(FALSE, U1002.seg, <<63, 120>>)}

StepNext ==
    \/ MainStart
    \/ TwiceList
    \/ LoadOld
    \/ \E o \in Outcomes : DetailFetch(o)
    \/ \E a \in StepArgs : OneStart(a)
    \/ \E o \in Outcomes : OneFetch(o)
    \/ WriteRaw
    \/ \E ok \in BOOLEAN : DownloadImage(ok)
    \/ WritePage
    \/ WriteMd
    \/ AppendIndex
    \/ WriteIndex
    \/ Interrupt
    \/ InterruptWrite

StepSpec == StepInit /\ [][StepNext]_vars

(***************************************************************************)
(* The scripts started on a posts.json that is absent, is no JSON, or is   *)
(* JSON but no list                                                        *)
(***************************************************************************)
LoadInit ==
    /\ posts_json \in {NoFile, MalformedFile, ObjectFile}
    /\ calc = NoCalc
    /\ Idle
    /\ site \in Sites
    /\ listing \in Listings
    /\ runs = 0
    /\ first_index = NoFile

\* the listing pages of the site stay as they are
LoadNext ==
    \/ MainStart
    \/ TwiceList
    \/ LoadOld
    \/ \E o \in Outcomes, dl \in Downloads : Archive(o, dl)
    \/ WriteIndex
    \/ \E a \in Args, o \in Outcomes, dl \in Downloads : FetchOne(a, o, dl)

LoadSpec == LoadInit /\ [][LoadNext]_vars

(***************************************************************************)
(* parse_post() of both scripts on the img srcs of a page                  *)
(***************************************************************************)
\* a.JPG, a.jpg, a.txt, b.JPG, b.jpg, b.txt, each bare, with ?1 and with ?2
Srcs ==
    {Img(stem, ext, q) :
        stem \in {<<97>>, <<98>>},
        ext \in {<<46, 74, 80, 71>>, <<46, 106, 112, 103>>, <<46, 116, 120, 116>>},
        q \in {<<>>, <<63, 49>>, <<63, 50>>}}

\* img elements of a page
MaxSrcs == 3

SrcLists == UNION {[1..n -> Srcs] : n \in 0..MaxSrcs}

ImagesInit ==
    /\ posts_json = NoFile
    /\ Idle
    /\ site = "A"
    /\ listing = "any"
    /\ runs = 0
    /\ first_index = NoFile
    /\ calc \in {[fn |-> "parse_post", input |-> imgs, done |-> FALSE,
                  output |-> <<>>, output_one |-> <<>>] : imgs \in SrcLists}

\* fetch.py 154-162 and fetch_one.py 120-128 on a page with these srcs
ParseImages ==
    /\ calc.fn = "parse_post"
    /\ ~calc.done
    /\ calc' = [calc EXCEPT
                  !.done = TRUE,
                  !.output = parse_images(Page(<<>>, <<>>, calc.input, <<>>)),
                  !.output_one = parse_images_one(Page(<<>>, <<>>, calc.input, <<>>))]
    /\ UNCHANGED <<posts_json, files, site, pc, existing_ids, y, m, page, urls,
                   index, k, run, exit, resp, list_fetches, all_empty, fetched,
                   written, ids_at_start, all_ok, listing, runs, first_index,
                   disk, gap, post, kills>>

ImagesSpec == ImagesInit /\ [][ParseImages]_vars

(***************************************************************************)
(* iter_months_desc() on its own                                           *)
(***************************************************************************)
\* the years before that of START_YM from which months are drawn
MaxYears == 2

\* the YYYYMM values of these years
Months ==
    {ym_text(yy, mm) :
        yy \in (ym_year(START_YM) - MaxYears)..ym_year(START_YM), mm \in 1..12}

MonthsInit ==
    /\ posts_json = NoFile
    /\ Idle
    /\ site = "A"
    /\ listing = "any"
    /\ runs = 0
    /\ first_index = NoFile
    /\ calc \in {[fn |-> "iter_months_desc", start |-> se[1], end |-> se[2],
                  y |-> ym_year(se[1]), m |-> ym_month(se[1]), out |-> <<>>,
                  done |-> FALSE] :
                    se \in {p \in Months \X Months : p[2] <= p[1]}}

\* lines 105-112: one turn of the loop: a yield, then the step to the month
\* before or the end
MonthStep ==
    /\ calc.fn = "iter_months_desc"
    /\ ~calc.done
    /\ LET nx == iter_months_desc(calc.y, calc.m, calc.end)
       IN  calc' = [calc EXCEPT !.out = Append(calc.out, ym_text(calc.y, calc.m)),
                                !.y = nx[1], !.m = nx[2], !.done = nx[3]]
    /\ UNCHANGED <<posts_json, files, site, pc, existing_ids, y, m, page, urls,
                   index, k, run, exit, resp, list_fetches, all_empty, fetched,
                   written, ids_at_start, all_ok, listing, runs, first_index,
                   disk, gap, post, kills>>

MonthsSpec == MonthsInit /\ [][MonthStep]_vars

(***************************************************************************)
(* Properties                                                              *)
(***************************************************************************)
IdsOf(f) == {f.data[n].id : n \in 1..Len(f.data)}

\* number of buckets from START_YM down to the bucket (yy, mm)
BucketNo(yy, mm) ==
    (ym_year(START_YM) * 12 + ym_month(START_YM)) - (yy * 12 + mm) + 1

NumBuckets == BucketNo(ym_year(END_YM), ym_month(END_YM))

\* the page loop of the current bucket has ended with this step
BucketEnded == pc' = "load" \/ (pc' = "walk" /\ <<y', m'>> # <<y, m>>)

\* C1: after any sequence of runs of main() and fetch_one(), with any fetch
\* outcomes, posts.json never holds two records with the same id.
C1_NoDuplicateIds ==
    \A i, j \in 1..Len(posts_json.data) :
        i # j => posts_json.data[i].id # posts_json.data[j].id

\* main() has written an index after it met a post that was already indexed
\* and two discovered URLs with one id
C1_Witness ==
    /\ run = "main" /\ exit = "done" /\ all_ok
    /\ \E u \in fetched : post_id(u) \in ids_at_start
    /\ \E u, v \in fetched : u # v /\ post_id(u) = post_id(v)
    /\ \E d \in written : TRUE
    /\ Len(posts_json.data) >= 3

\* C2: every id in posts.json before a run of main() is still in the
\* posts.json the run writes, whatever the walker finds and whatever fails.
C2_NoRecordRemoved ==
    [][run' = "main" => IdsOf(posts_json) \subseteq IdsOf(posts_json')]_vars

\* main() has rewritten a non-empty index, with new posts, after a failed fetch
C2_Witness ==
    /\ run = "main" /\ exit = "done" /\ ~all_ok
    /\ ids_at_start # {}
    /\ written # {}
    /\ ids_at_start \subseteq IdsOf(posts_json)
    /\ IdsOf(posts_json) # ids_at_start

\* C3: a run of main() leaves every field of every record that was already
\* in posts.json unchanged, records written by fetch_one.py (with their
\* `path` field) included.
C3_ExistingRecordsUnchanged ==
    [][run' = "main" =>
        \A n \in 1..Len(posts_json.data) :
            \E j \in 1..Len(posts_json'.data) :
                posts_json'.data[j] = posts_json.data[n]]_vars

\* C4: in a run of main(), no detail page is fetched and no post directory
\* is written for a discovered URL whose id was already in posts.json.
C4_IndexedNeverRefetched ==
    run = "main" =>
        \A n \in 1..Len(urls) :
            post_id(urls[n]) \in ids_at_start =>
                /\ urls[n] \notin fetched
                /\ local_dir_of(parse_datetime(DetailPage(site, urls[n])),
                                post_id(urls[n])) \notin written

\* C5: the written posts.json is ordered by timestamp descending, with every
\* "unknown" timestamp after all dated ones, whichever script wrote it.
C5_OrderedUnknownLast ==
    \A i, j \in 1..Len(posts_json.data) :
        i < j =>
            LET a == posts_json.data[i].datetime
                b == posts_json.data[j].datetime
            IN  /\ ~(a = UNKNOWN /\ b # UNKNOWN)
                /\ (a # UNKNOWN /\ b # UNKNOWN) => ~StrLess(a, b)

\* C6: after main() ran twice against an unchanged site with every fetch
\* succeeding, the index has the records and the order it had after the
\* first run, no id twice, and the second run wrote no post file.
C6_SecondRunChangesNothing ==
    (runs = MaxRuns /\ run = "main" /\ exit = "done") =>
        /\ posts_json = first_index
        /\ written = {}
        /\ \A i, j \in 1..Len(posts_json.data) :
              i # j => posts_json.data[i].id # posts_json.data[j].id

\* the second run has ended after it met the posts the first run archived
C6_Witness ==
    /\ runs = MaxRuns /\ run = "main" /\ exit = "done" /\ all_ok
    /\ Cardinality(fetched) >= 3
    /\ Len(posts_json.data) >= 3
    /\ \E n \in 1..Len(posts_json.data) : posts_json.data[n].datetime = UNKNOWN

\* C7: a listing page that answers with no not-yet-seen link ends the
\* pagination of its bucket.
C7_NoNewLinksEndsBucket ==
    [][(pc = "walk" /\ resp'.outcome = "ok" /\ resp'.added = 0) => BucketEnded]_vars

\* C8: whatever the listing server answers, the walk of a bucket ends after
\* a bounded number of pages, so the walker terminates.
C8_WalkTerminates == (pc = "walk") ~> (pc # "walk")

\* the empty-page threshold of the walker: it stops a bucket at the first
\* page without links
K == 1

\* C9: when every listing page carries no link, the walker fetches at most K
\* pages per bucket and returns an empty list.
C9_EmptyListingTerminates ==
    (run = "main" /\ all_empty) =>
        /\ pc = "walk" =>
              /\ urls = <<>>
              /\ page = 1
              /\ list_fetches <= K * (BucketNo(y, m) - 1)
        /\ pc = "load" =>
              /\ urls = <<>>
              /\ list_fetches <= K * NumBuckets

\* the walker has returned after it found every bucket empty
C9_Witness ==
    /\ pc = "load" /\ all_empty
    /\ list_fetches = K * NumBuckets
    /\ urls = <<>>

\* C10: a failed listing fetch (status other than 200, or an error raised)
\* ends the pagination of its bucket only: the URLs found so far are kept
\* and the run goes on with the next bucket or with archiving.
C10_FailedPageEndsBucketOnly ==
    [][(pc = "walk" /\ resp'.outcome \in {"http_error", "raise"}) =>
          (BucketEnded /\ urls' = urls)]_vars


\* C11: in main(), a detail fetch that answers another status than 200 or
\* raises makes the loop skip that post and go on with the next URL; the
\* failed post joins neither index nor existing_ids, nothing is written for
\* it, so a later run meets it as not yet archived.
C11_FailedFetchSkipsPost ==
    [][(/\ pc = "archive" /\ k <= Len(urls) /\ pc' # "idle"
        /\ resp'.outcome \in {"http_error", "raise"})
       => /\ pc' = "archive"
          /\ k' = k + 1
          /\ index' = index
          /\ existing_ids' = existing_ids
          /\ posts_json' = posts_json
          /\ disk' = disk]_vars

\* the fetch of the first URL failed and the post of the second URL was
\* archived after it
C11_Witness ==
    /\ run = "main" /\ pc = "archive" /\ k = 3
    /\ urls[1] \in fetched
    /\ post_id(urls[1]) \notin existing_ids
    /\ post_id(urls[2]) \in existing_ids
    /\ post_id(urls[2]) \notin ids_at_start

\* the srcs of the page.html of a post directory
PageHtml(dir) == (CHOOSE f \in disk : f.dir = dir /\ f.kind = "page").content

\* the elements of a sequence
Range(seq) == {seq[n] : n \in 1..Len(seq)}

\* C12: when main() indexes a post, every image of the post was tried even
\* if an earlier download failed; the post is indexed; a failed image is in
\* neither the record's images nor the mapping, so page.html keeps its
\* remote src; every downloaded image is on disk, in the record's images,
\* and its src in page.html is the local path.
C12_FailedImageOmitted ==
    [][(pc = "append" /\ run = "main" /\ pc' = "archive")
       => LET rec == index'[Len(index')]
              html == PageHtml(post_dir)
              local(n) == post_dir \o SLASH \o rel_of(post_images[n], n)
              shows(j, n) == [post_page.imgs[j] EXCEPT !.query = <<>>] = post_images[n]
          IN  /\ Len(index') = Len(index) + 1
              /\ rec.id = post_pid /\ rec.local_dir = post_dir
              /\ Len(post.dl) = Len(post_images)
              /\ Len(html) = Len(post_page.imgs)
              /\ \A n \in 1..Len(post_images) :
                    IF post.dl[n]
                    THEN /\ local(n) \in Range(rec.images)
                         /\ ImageFile(post_dir, post_images[n], n) \in disk
                         /\ \A j \in 1..Len(html) :
                               shows(j, n) =>
                                   html[j] = LocalSrc(rel_of(post_images[n], n))
                    ELSE /\ local(n) \notin Range(rec.images)
                         /\ \A j \in 1..Len(html) :
                               shows(j, n) => html[j] = post_page.imgs[j]]_vars

\* main() has indexed a post with two images of which the first download
\* failed and the second succeeded
C12_Witness ==
    /\ run = "main" /\ pc = "archive" /\ Len(index) > 0
    /\ LET rec == index[Len(index)]
       IN  /\ Len(rec.images) = 1
           /\ \E n \in 1..Len(urls) :
                 LET imgs == parse_images(DetailPage(site, urls[n]))
                 IN  /\ post_id(urls[n]) = rec.id
                     /\ Len(imgs) = 2
                     /\ rec.images[1] = rec.local_dir \o SLASH \o rel_of(imgs[2], 2)
                     /\ ImageFile(rec.local_dir, imgs[1], 1) \notin disk
                     /\ \E j \in 1..Len(PageHtml(rec.local_dir)) :
                           PageHtml(rec.local_dir)[j] = LocalSrc(rel_of(imgs[2], 2))

\* C13: in every record of posts.json, images[i] is the local file of the
\* i-th distinct image URL of the post, the file numbered i, whichever
\* downloads succeeded and failed.
C13_ImagesPositional ==
    \A r \in 1..Len(posts_json.data) :
        LET rec == posts_json.data[r]
            imgs == parse_images(DetailPage(site, rec.url))
        IN  \A i \in 1..Len(rec.images) :
                /\ i <= Len(imgs)
                /\ rec.images[i] = rec.local_dir \o SLASH \o rel_of(imgs[i], i)

\* C14: when posts.json is absent, is no JSON or is no JSON list, main()
\* and fetch_one() load an empty index and go on: main() starts the walker
\* with no existing id and takes over no record, fetch_one() ends without a
\* crash unless its fetch fails.
C14_BadIndexLoadsEmpty ==
    [][(~posts_json.exists \/ posts_json.json # "list")
       => /\ (pc = "idle" /\ run' = "main")
                => (existing_ids' = {} /\ pc' = "walk")
          /\ (pc = "load") => (index' = <<>> /\ pc' = "archive")
          /\ (pc = "idle" /\ run' = "one")
                => (ids_at_start' = {} /\ (all_ok' => exit' = "done"))]_vars

\* every artifact of the post of a record is on disk
Complete(rec) ==
    /\ RawFile(rec.local_dir) \in disk
    /\ MdFile(rec.local_dir) \in disk
    /\ \E f \in disk : f.dir = rec.local_dir /\ f.kind = "page"
    /\ \A i \in 1..Len(rec.images) :
          \E f \in disk : f.kind = "image" /\ f.path = rec.images[i]

AllComplete == \A r \in 1..Len(posts_json.data) : Complete(posts_json.data[r])

\* C15: wherever a run of main() or fetch_one() is interrupted, every
\* record of the persisted posts.json has its page_raw.html, its images, its
\* page.html and its index.md on disk; the post that was being archived when
\* the run was interrupted has no record, so the next run takes it as new.
C15_IndexedOnlyWhenComplete ==
    [][/\ AllComplete'
       /\ (exit' = "killed" /\ pc \in {"raw", "img", "md", "append"})
            => /\ post_pid \notin IdsOf(posts_json')
               /\ is_new(post_pid, load_existing_ids(posts_json'))
               /\ ~one_skips(post_pid, load_index(posts_json')[2])]_vars

\* a run was interrupted in the middle of a post: a part of its artifacts is
\* on disk, posts.json holds other posts and no record of this one
C15_Witness ==
    /\ exit = "killed"
    /\ Len(posts_json.data) > 0
    /\ \E f \in disk :
          /\ f.kind = "raw"
          /\ MdFile(f.dir) \notin disk
          /\ \A r \in 1..Len(posts_json.data) : posts_json.data[r].local_dir # f.dir

\* C16: parse_post() of either script returns every image URL of the page
\* once, without its query, at the place of its first occurrence: no two
\* entries are equal, every entry is a query-stripped image src of the
\* page, every image src of the page has its entry, and the entries follow
\* the order of their first occurrences.
C16_ImagesDeduplicated ==
    (calc.fn = "parse_post" /\ calc.done) =>
        LET in == calc.input
            out == calc.output
            bare(im) == [im EXCEPT !.query = <<>>]
            is_image(im) == Lower(im.ext) \in IMG_EXTS
            first(u) == CHOOSE j \in 1..Len(in) :
                            /\ is_image(in[j]) /\ bare(in[j]) = u
                            /\ \A h \in 1..(j - 1) :
                                  ~(is_image(in[h]) /\ bare(in[h]) = u)
        IN  /\ calc.output_one = out
            /\ \A i, j \in 1..Len(out) : i # j => out[i] # out[j]
            /\ \A i \in 1..Len(out) :
                  /\ out[i].query = <<>>
                  /\ \E j \in 1..Len(in) : is_image(in[j]) /\ bare(in[j]) = out[i]
            /\ \A j \in 1..Len(in) :
                  is_image(in[j]) => \E i \in 1..Len(out) : out[i] = bare(in[j])
            /\ \A i, j \in 1..Len(out) : i < j => first(out[i]) < first(out[j])

\* a page showed one image with two different queries, another image
\* between them, and parse_post() returned two URLs
C16_Witness ==
    /\ calc.fn = "parse_post" /\ calc.done
    /\ Len(calc.input) = 3
    /\ calc.input[1].query # calc.input[3].query
    /\ [calc.input[1] EXCEPT !.query = <<>>] = [calc.input[3] EXCEPT !.query = <<>>]
    /\ Len(calc.output) = 2
    /\ calc.output[1] = [calc.input[1] EXCEPT !.query = <<>>]

\* C17: in main(), every network fetch after the first (a listing page, a
\* detail page, an image) starts after a sleep of SLEEP_SEC since the fetch
\* before it, also from the last page of a bucket to page 1 of the next
\* bucket and from the detail fetch of an indexed post to the next one.
C17_SleepBetweenFetches ==
    [][(/\ run = "main" /\ exit' # "killed"
        /\ \/ pc = "walk"
           \/ pc = "archive" /\ k <= Len(urls)
           \/ pc = "img" /\ post'.dl # post.dl)
       => gap # "fetched"]_vars

\* C18: fetch_one() started with a URL or a bare id whose id is in
\* posts.json fetches nothing, writes no file and leaves posts.json as it
\* is; whenever fetch_one() fetches a page, its id was not in posts.json.
C18_IndexedOneIsNoOp ==
    [][(pc = "idle" /\ run' = "one")
       => /\ \A u \in fetched' : post_id(u) \notin IdsOf(posts_json)
          /\ exit' # "skip" => (fetched' # {} \/ exit' = "crash")
          /\ exit' = "skip"
                => /\ fetched' = {} /\ written' = {}
                   /\ posts_json' = posts_json
                   /\ disk' = disk
                   /\ files' = files]_vars

\* fetch_one() has returned at once on a posts.json that holds records
C18_Witness ==
    /\ run = "one" /\ exit = "skip"
    /\ fetched = {} /\ written = {}
    /\ ids_at_start # {}
    /\ ids_at_start = IdsOf(posts_json)

\* the months counted from year 0, and back
MonthNo(ym) == ym_year(ym) * 12 + (ym_month(ym) - 1)
MonthOf(n) == ym_text(n \div 12, (n % 12) + 1)

\* C19: for every valid start_ym >= end_ym, iter_months_desc() yields the
\* months from start_ym down to end_ym, both included, each once, each the
\* month before the one yielded before it (December of the year before
\* after a January), and ends after it yielded end_ym.
C19_MonthsDescending ==
    calc.fn = "iter_months_desc" =>
        LET n == MonthNo(calc.start) - MonthNo(calc.end) + 1
        IN  /\ Len(calc.out) <= n
            /\ \A i \in 1..Len(calc.out) :
                  calc.out[i] = MonthOf(MonthNo(calc.start) - (i - 1))
            /\ calc.done <=> Len(calc.out) = n
            /\ calc.done => calc.out[n] = calc.end

\* the generator has ended after it went through two turns of a year
C19_Witness ==
    /\ calc.fn = "iter_months_desc" /\ calc.done
    /\ ym_year(calc.start) = ym_year(calc.end) + 2
    /\ ym_month(calc.start) < ym_month(calc.end)
    /\ calc.out[1] = calc.start
    /\ calc.out[Len(calc.out)] = calc.end

\* C20: after a run of main() in which every listing, detail and image
\* fetch succeeded, posts.json holds a record for every post URL the walker
\* returned, URLs without a numeric id (archived under "unknown") included.
C20_EveryDiscoveredUrlIndexed ==
    (run = "main" /\ exit = "done" /\ all_ok) =>
        \A u \in fetched :
            \E r \in 1..Len(posts_json.data) : posts_json.data[r].url = u
====
